---- MODULE Spec2Model ----
(***************************************************************************)
(* Model of bevy_config_file (src/src/lib.rs): load_config_file reads a    *)
(* YAML file into a typed value, looks up the environment variable         *)
(* CONFIG_<TypeName>, shallow-merges its JSON object into the re-encoded   *)
(* base and decodes the result back; load_resource_from_config_file        *)
(* inserts the outcome into the host's resource registry.                  *)
(*                                                                         *)
(* Texts (file contents, variable contents, type names) are sequences of   *)
(* tokens or characters and are really parsed; typed values, JSON values   *)
(* and YAML nodes are records tagged by t, whose payload field is named    *)
(* after its kind: s a string, n a number, b a boolean, q a sequence, m a  *)
(* map from strings.                                                       *)
(***************************************************************************)
EXTENDS Integers, Sequences, FiniteSets, TLC

VARIABLES files, env, world, lastOp, lastT, loaded, ret, stages, looked,
          base_config, base_json, changes

vars == <<files, env, world, lastOp, lastT, loaded, ret, stages, looked,
          base_config, base_json, changes>>

\* Number of changes the surroundings (tests, shell) make to files and
\* environment variables in one run.
MaxChanges == 3

(***************************************************************************)
(* Generic helpers                                                         *)
(***************************************************************************)
Last(s) == s[Len(s)]

EmptyMap == [k \in {} |-> 0]

\* serde_json::Map::insert / BTreeMap::insert: replaces the value of an
\* existing key, adds a new key otherwise.
MapInsert(m, key, value) ==
    [k \in (DOMAIN m) \cup {key} |-> IF k = key THEN value ELSE m[k]]

None == [t |-> "None"]

(***************************************************************************)
(* serde_json::Value                                                       *)
(***************************************************************************)
JNull == [t |-> "Null"]
JBool(b) == [t |-> "Bool", b |-> b]
\* k is "int" (N::PosInt / N::NegInt) or "float" (N::Float); n the magnitude
JNumber(k, n) == [t |-> "Number", k |-> k, n |-> n]
JString(s) == [t |-> "String", s |-> s]
JArray(a) == [t |-> "Array", q |-> a]
JObject(m) == [t |-> "Object", m |-> m]

(***************************************************************************)
(* JSON text: a sequence of tokens.  Punctuation [t |-> "p"], quoted       *)
(* strings "str", integer and float literals "int" / "float", the literals *)
(* true false null "lit", and any other bare word "word".                  *)
(***************************************************************************)
P(c) == [t |-> "p", s |-> c]
Str(s) == [t |-> "str", s |-> s]
IntTok(n) == [t |-> "int", n |-> n]
FloatTok(n) == [t |-> "float", n |-> n]
Lit(w) == [t |-> "lit", s |-> w]
Word(w) == [t |-> "word", s |-> w]

IsP(toks, c) == Len(toks) > 0 /\ Head(toks).t = "p" /\ Head(toks).s = c

ParseFail == [ok |-> FALSE, val |-> JNull, rest |-> << >>]
ParseOk(val, rest) == [ok |-> TRUE, val |-> val, rest |-> rest]

RECURSIVE ParseValue(_), ParseMembers(_, _), ParseElements(_, _)

\* serde_json::Deserializer::parse_value for one value at the head of toks
ParseValue(toks) ==
    IF Len(toks) = 0 THEN ParseFail
    ELSE LET h == Head(toks)
             r == Tail(toks)
         IN CASE h.t = "int" -> ParseOk(JNumber("int", h.n), r)
              [] h.t = "float" -> ParseOk(JNumber("float", h.n), r)
              [] h.t = "str" -> ParseOk(JString(h.s), r)
              [] h.t = "lit" ->
                    ParseOk(IF h.s = "null" THEN JNull ELSE JBool(h.s = "true"), r)
              [] h.t = "p" /\ h.s = "{" ->
                    IF IsP(r, "}") THEN ParseOk(JObject(EmptyMap), Tail(r))
                    ELSE ParseMembers(r, EmptyMap)
              [] h.t = "p" /\ h.s = "[" ->
                    IF IsP(r, "]") THEN ParseOk(JArray(<< >>), Tail(r))
                    ELSE ParseElements(r, << >>)
              [] OTHER -> ParseFail

\* members of an object after "{" or ",": "key" : value , ... }
\* a repeated key keeps the last value (Map::insert)
ParseMembers(toks, m) ==
    IF Len(toks) < 2 \/ Head(toks).t # "str" \/ ~IsP(Tail(toks), ":")
    THEN ParseFail
    ELSE LET pv == ParseValue(Tail(Tail(toks)))
             m2 == MapInsert(m, Head(toks).s, pv.val)
         IN IF ~pv.ok THEN ParseFail
            ELSE IF IsP(pv.rest, ",") THEN ParseMembers(Tail(pv.rest), m2)
            ELSE IF IsP(pv.rest, "}") THEN ParseOk(JObject(m2), Tail(pv.rest))
            ELSE ParseFail

\* elements of an array after "[" or ",": value , ... ]
ParseElements(toks, a) ==
    LET pv == ParseValue(toks)
        a2 == Append(a, pv.val)
    IN IF ~pv.ok THEN ParseFail
       ELSE IF IsP(pv.rest, ",") THEN ParseElements(Tail(pv.rest), a2)
       ELSE IF IsP(pv.rest, "]") THEN ParseOk(JArray(a2), Tail(pv.rest))
       ELSE ParseFail

\* variant: a text that does not parse counts as null
\* (serde_json::from_str(&json_override).unwrap_or_default())
json_from_str_or_null(text) ==
    LET pv == ParseValue(text)
    IN IF pv.ok /\ pv.rest = << >> THEN [ok |-> TRUE, val |-> pv.val]
       ELSE [ok |-> TRUE, val |-> JNull]

\* serde_json::from_str::<JsonValue>: one value and nothing after it
json_from_str(text) ==
    LET pv == ParseValue(text)
    IN IF pv.ok /\ pv.rest = << >> THEN [ok |-> TRUE, val |-> pv.val]
       ELSE [ok |-> FALSE, val |-> JNull]

(***************************************************************************)
(* Typed configuration values and their schemas (the T of the source, with *)
(* the Serialize / Deserialize implementations that serde derives).        *)
(* A schema is i32, f32, String, or a struct: a sequence of named fields.  *)
(* Every integer of the model lies within the range of i32.                *)
(***************************************************************************)
TI32 == [t |-> "i32"]
TF32 == [t |-> "f32"]
TString == [t |-> "String"]
TStruct(fields) == [t |-> "struct", q |-> fields]
Field(name, ty) == [name |-> name, ty |-> ty]

VI32(n) == [t |-> "i32", n |-> n]
\* k is "fin" (a finite float of magnitude n) or "nan"
VF32(k, n) == [t |-> "f32", k |-> k, n |-> n]
VString(s) == [t |-> "String", s |-> s]
VStruct(m) == [t |-> "struct", m |-> m]

DecodeFail == [ok |-> FALSE, val |-> None]
DecodeOk(val) == [ok |-> TRUE, val |-> val]

FieldNames(fields) == {fields[i].name : i \in DOMAIN fields}

RECURSIVE to_value(_)
\* serde_json::to_value(&base_config): a struct becomes an object, a finite
\* float a number, a non-finite float null (Number::from_f64 has no value)
to_value(x) ==
    CASE x.t = "i32" -> JNumber("int", x.n)
      [] x.t = "f32" -> IF x.k = "fin" THEN JNumber("float", x.n) ELSE JNull
      [] x.t = "String" -> JString(x.s)
      [] x.t = "struct" -> JObject([k \in DOMAIN x.m |-> to_value(x.m[k])])

RECURSIVE from_value(_, _)
\* serde_json::from_value::<T>(base_json).  A struct is decoded from an
\* object (every field required, unknown keys ignored) or from an array of
\* exactly its fields in declaration order.
from_value(j, ty) ==
    CASE ty.t = "i32" ->
            IF j.t = "Number" /\ j.k = "int"
            THEN DecodeOk(VI32(j.n)) ELSE DecodeFail
      [] ty.t = "f32" ->
            IF j.t = "Number" THEN DecodeOk(VF32("fin", j.n)) ELSE DecodeFail
      [] ty.t = "String" ->
            IF j.t = "String" THEN DecodeOk(VString(j.s)) ELSE DecodeFail
      [] ty.t = "struct" ->
            LET fields == ty.q
                Sub(i) ==
                    IF j.t = "Object"
                    THEN IF fields[i].name \in DOMAIN j.m
                         THEN from_value(j.m[fields[i].name], fields[i].ty)
                         ELSE DecodeFail
                    ELSE from_value(j.q[i], fields[i].ty)
                shape == \/ j.t = "Object"
                         \/ j.t = "Array" /\ Len(j.q) = Len(fields)
            IN IF shape /\ \A i \in DOMAIN fields : Sub(i).ok
               THEN DecodeOk(VStruct(
                        [n \in FieldNames(fields) |->
                            Sub(CHOOSE i \in DOMAIN fields : fields[i].name = n).val]))
               ELSE DecodeFail

(***************************************************************************)
(* YAML text: a sequence of lines, each an indentation and its tokens: the *)
(* punctuation ":" and "-" and plain scalars.  A scalar carries the kind   *)
(* YAML resolves it to ("int", "float", "nan", "str"), its text s and its  *)
(* numeric value n.                                                        *)
(***************************************************************************)
Scalar(k, s, n) == [t |-> "scalar", k |-> k, s |-> s, n |-> n]
YInt(s, n) == Scalar("int", s, n)
YFloat(s, n) == Scalar("float", s, n)
YNan == Scalar("nan", ".nan", 0)
YStr(s) == Scalar("str", s, 0)
YNull == Scalar("null", "", 0)
YMapping(pairs) == [t |-> "mapping", q |-> pairs]
Line(ind, toks) == [ind |-> ind, toks |-> toks]

IsColon(tok) == tok.t = "p" /\ tok.s = ":"

YamlFail == [ok |-> FALSE, node |-> YNull, rest |-> << >>]

RECURSIVE ParseBlock(_, _, _)
\* a block mapping whose entries are indented by ind:
\*   key: scalar     |   key:  followed by a deeper block   |   key:
ParseBlock(lines, ind, pairs) ==
    IF lines = << >> \/ Head(lines).ind < ind
    THEN [ok |-> TRUE, node |-> YMapping(pairs), rest |-> lines]
    ELSE LET l == Head(lines)
             r == Tail(lines)
             n == Len(l.toks)
             keyed == /\ n \in {2, 3}
                      /\ l.toks[1].t = "scalar"
                      /\ IsColon(l.toks[2])
         IN IF l.ind > ind \/ ~keyed THEN YamlFail
            ELSE IF n = 3
            THEN IF l.toks[3].t = "scalar"
                 THEN ParseBlock(r, ind,
                        Append(pairs, [key |-> l.toks[1].s, node |-> l.toks[3]]))
                 ELSE YamlFail
            ELSE IF r # << >> /\ Head(r).ind > ind
            THEN LET sub == ParseBlock(r, Head(r).ind, << >>)
                 IN IF sub.ok
                    THEN ParseBlock(sub.rest, ind,
                           Append(pairs, [key |-> l.toks[1].s, node |-> sub.node]))
                    ELSE YamlFail
            ELSE ParseBlock(r, ind,
                   Append(pairs, [key |-> l.toks[1].s, node |-> YNull]))

RECURSIVE yaml_decode(_, _), DecodeFields(_, _, _)
\* the derived Deserialize of T driven by serde_yaml
yaml_decode(node, ty) ==
    CASE ty.t = "i32" ->
            IF node.t = "scalar" /\ node.k = "int"
            THEN DecodeOk(VI32(node.n)) ELSE DecodeFail
      [] ty.t = "f32" ->
            IF node.t = "scalar" /\ node.k \in {"int", "float"}
            THEN DecodeOk(VF32("fin", node.n))
            ELSE IF node.t = "scalar" /\ node.k = "nan"
            THEN DecodeOk(VF32("nan", 0))
            ELSE DecodeFail
      [] ty.t = "String" ->
            IF node.t = "scalar" /\ node.k # "null"
            THEN DecodeOk(VString(node.s)) ELSE DecodeFail
      [] ty.t = "struct" ->
            IF node.t = "mapping" THEN DecodeFields(node.q, ty.q, EmptyMap)
            ELSE DecodeFail

\* visit_map of a derived struct: unknown keys are skipped, a repeated
\* field and a missing field are errors
DecodeFields(pairs, fields, acc) ==
    IF pairs = << >>
    THEN IF DOMAIN acc = FieldNames(fields) THEN DecodeOk(VStruct(acc))
         ELSE DecodeFail
    ELSE LET p == Head(pairs)
         IN IF p.key \notin FieldNames(fields)
            THEN DecodeFields(Tail(pairs), fields, acc)
            ELSE IF p.key \in DOMAIN acc THEN DecodeFail
            ELSE LET f == CHOOSE i \in DOMAIN fields : fields[i].name = p.key
                     d == yaml_decode(p.node, fields[f].ty)
                 IN IF d.ok
                    THEN DecodeFields(Tail(pairs), fields, MapInsert(acc, p.key, d.val))
                    ELSE DecodeFail

\* serde_yaml::from_str::<T>(&yaml_content)
yaml_from_str(text, ty) ==
    LET pb == ParseBlock(text, 0, << >>)
    IN IF pb.ok /\ pb.rest = << >> THEN yaml_decode(pb.node, ty)
       ELSE DecodeFail

(***************************************************************************)
(* The configuration types of the run: their std::any::type_name (a        *)
(* sequence of characters), their ConfigFile::PATH and their schema.       *)
(***************************************************************************)
Types == {"GameSettings", "EditorSettings", "Flat"}

type_name(T) ==
    CASE T = "GameSettings" ->
            <<"g", "a", "m", "e", ":", ":", "S", "e", "t", "t", "i", "n", "g", "s">>
      [] T = "EditorSettings" ->
            <<"e", "d", ":", ":", "u", "i", ":", ":", "S", "e", "t", "t", "i", "n", "g", "s">>
      [] T = "Flat" -> <<"F", "l", "a", "t">>

PATH(T) ==
    CASE T = "GameSettings" -> "game.yaml"
      [] T = "EditorSettings" -> "editor.yaml"
      [] T = "Flat" -> "game.yaml"

ValueNameSchema == TStruct(<<Field("value", TI32), Field("name", TString)>>)
WindowSchema == TStruct(<<Field("width", TI32), Field("height", TI32)>>)
EditorSchema == TStruct(<<Field("volume", TF32), Field("window", WindowSchema)>>)

Schema(T) == IF T = "EditorSettings" THEN EditorSchema ELSE ValueNameSchema

Paths == {PATH(T) : T \in Types}

CONFIG_Settings == <<"C", "O", "N", "F", "I", "G", "_", "S", "e", "t", "t", "i", "n", "g", "s">>
CONFIG_Flat == <<"C", "O", "N", "F", "I", "G", "_", "F", "l", "a", "t">>

\* the variable the surroundings set or remove; CONFIG_Flat is never set
VarNames == {CONFIG_Settings}

(***************************************************************************)
(* File contents and variable contents the surroundings provide            *)
(***************************************************************************)
Colon == P(":")

\* "value: 42\nname: test\n"
YamlValid == <<Line(0, <<YStr("value"), Colon, YInt("42", 42)>>),
               Line(0, <<YStr("name"), Colon, YStr("test")>>)>>

\* "invalid: yaml: content:\n  - this is bad\n  missing bracket"
YamlInvalid == <<Line(0, <<YStr("invalid"), Colon, YStr("yaml"), Colon, YStr("content"), Colon>>),
                 Line(2, <<P("-"), YStr("this is bad")>>),
                 Line(2, <<YStr("missing bracket")>>)>>

\* "volume: 1.0\nwindow:\n  width: 800\n  height: 600\n"
YamlEditor == <<Line(0, <<YStr("volume"), Colon, YFloat("1.0", 1)>>),
                Line(0, <<YStr("window"), Colon>>),
                Line(2, <<YStr("width"), Colon, YInt("800", 800)>>),
                Line(2, <<YStr("height"), Colon, YInt("600", 600)>>)>>

\* "volume: .nan\nwindow:\n  width: 800\n  height: 600\n"
YamlEditorNan == <<Line(0, <<YStr("volume"), Colon, YNan>>),
                   Line(0, <<YStr("window"), Colon>>),
                   Line(2, <<YStr("width"), Colon, YInt("800", 800)>>),
                   Line(2, <<YStr("height"), Colon, YInt("600", 600)>>)>>

FileTexts == {YamlValid, YamlInvalid, YamlEditor, YamlEditorNan}

Obj1(k, valueToks) == <<P("{"), Str(k), Colon>> \o valueToks \o <<P("}")>>

VarTexts ==
    { Obj1("value", <<IntTok(100)>>),                        \* {"value": 100}
      Obj1("value", <<Word("invalid"), Word("json")>>),      \* {"value": invalid json}
      Obj1("value", <<Str("str")>>),                         \* {"value": "str"}
      Obj1("value", <<FloatTok(100)>>),                      \* {"value": 100.0}
      Obj1("extra", <<IntTok(1)>>),                          \* {"extra": 1}
      Obj1("volume", <<FloatTok(2000)>>),                    \* {"volume": 2000.0}
      Obj1("window", Obj1("width", <<IntTok(9)>>)),          \* {"window": {"width": 9}}
      Obj1("window", <<P("["), IntTok(9), P(","), IntTok(5), P("]")>>),
                                                             \* {"window": [9, 5]}
      <<P("{"), Str("value"), Colon, IntTok(1), P(","),
        Str("value"), Colon, IntTok(2), P("}")>>,            \* {"value": 1, "value": 2}
      <<P("{"), Str("name"), Colon, Str("other"), P(","),
        Str("value"), Colon, IntTok(100), P("}")>>,          \* {"name": "other", "value": 100}
      <<P("{"), P("}")>>,                                    \* {}
      <<P("{"), P("}"), P("}")>>,                            \* {}}
      <<P("["), IntTok(1), P("]")>>,                         \* [1]
      <<Str("x")>>,                                          \* "x"
      <<IntTok(7)>>,                                         \* 7
      <<Lit("true")>>,                                       \* true
      <<Lit("null")>> }                                      \* null

Missing == [t |-> "missing"]
FileOf(text) == [t |-> "file", q |-> text]

Unset == [t |-> "unset"]
\* a value that is not valid Unicode; its bytes are not modelled
NotUnicode == [t |-> "not_unicode"]
TextOf(text) == [t |-> "text", q |-> text]

(***************************************************************************)
(* The operations load_config_file is built from                           *)
(***************************************************************************)
Ok(val) == [ok |-> TRUE, val |-> val, kind |-> "none"]
Err(kind) == [ok |-> FALSE, val |-> None, kind |-> kind]

\* variant: a file that cannot be read counts as an empty one
\* (fs::read_to_string(config_path).unwrap_or_default())
read_to_string_or_empty(fs, path) ==
    IF path \in DOMAIN fs /\ fs[path].t = "file" THEN Ok(fs[path].q) ELSE Ok(<< >>)

\* fs::read_to_string(config_path)
read_to_string(fs, path) ==
    IF path \in DOMAIN fs /\ fs[path].t = "file" THEN Ok(fs[path].q) ELSE Err("Io")

\* variant: an absent variable counts as an empty text
\* (env::var(&env_var_name).unwrap_or_default())
env_var_or_empty(ev, name) ==
    CASE name \in DOMAIN ev /\ ev[name].t = "text" -> Ok(ev[name].q)
      [] name \in DOMAIN ev /\ ev[name].t = "not_unicode" -> Err("VarError")
      [] OTHER -> Ok(<< >>)

\* variant: a value that is not Unicode is read with replacement characters
\* (env::var_os(&env_var_name) and to_string_lossy)
env_var_lossy(ev, name) ==
    CASE name \in DOMAIN ev /\ ev[name].t = "text" -> Ok(ev[name].q)
      [] name \in DOMAIN ev /\ ev[name].t = "not_unicode" -> Ok(<<Word("?")>>)
      [] OTHER -> Err("VarError")

\* env::var(&env_var_name): Err for a variable that is not present and for
\* one whose value is not valid Unicode
env_var(ev, name) ==
    IF name \in DOMAIN ev /\ ev[name].t = "text" THEN Ok(ev[name].q)
    ELSE Err("VarError")

\* index of the first "::" in s, 0 when there is none
FirstSep(s) ==
    LET hits == {i \in 1..(Len(s) - 1) : s[i] = ":" /\ s[i + 1] = ":"}
    IN IF hits = {} THEN 0 ELSE CHOOSE i \in hits : \A j \in hits : i <= j

\* variant: the name is not split at all
SplitNothing(s) == <<s>>

RECURSIVE Split(_)
\* str::split("::"): the pieces between successive matches, left to right
Split(s) ==
    LET i == FirstSep(s)
    IN IF i = 0 THEN <<s>>
       ELSE <<SubSeq(s, 1, i - 1)>> \o Split(SubSeq(s, i + 2, Len(s)))

\* variant: the first piece of the name instead of the last
\* (.next() for .last())
EnvVarNameFirst(T) ==
    <<"C", "O", "N", "F", "I", "G", "_">> \o Head(Split(type_name(T)))

\* format!("CONFIG_{type_name}") of the last piece of the type's name
EnvVarName(T) ==
    LET last_piece == Last(Split(type_name(T)))
    IN <<"C", "O", "N", "F", "I", "G", "_">> \o last_piece

RECURSIVE InsertAllDeep(_, _, _)
\* variant: an object of the override is merged into an object of the base
\* key by key instead of replacing it
InsertAllDeep(base_map, override_map, keys) ==
    IF keys = {} THEN base_map
    ELSE LET key == CHOOSE k \in keys : TRUE
             ov == override_map[key]
             deep == /\ key \in DOMAIN base_map
                     /\ base_map[key].t = "Object"
                     /\ ov.t = "Object"
             value == IF deep
                      THEN JObject(InsertAllDeep(base_map[key].m, ov.m, DOMAIN ov.m))
                      ELSE ov
         IN InsertAllDeep(MapInsert(base_map, key, value),
                          override_map, keys \ {key})

RECURSIVE InsertAll(_, _, _)
\* for (key, value) in override_map { base_map.insert(key, value); }
InsertAll(base_map, override_map, keys) ==
    IF keys = {} THEN base_map
    ELSE LET key == CHOOSE k \in keys : TRUE
         IN InsertAll(MapInsert(base_map, key, override_map[key]),
                      override_map, keys \ {key})

\* variant: an override that is not an object replaces the base
MergeOrReplace(bj, ov) ==
    IF bj.t = "Object" /\ ov.t = "Object"
    THEN JObject(InsertAll(bj.m, ov.m, DOMAIN ov.m))
    ELSE ov

\* the if-let of the merge: keys are inserted only when both are objects
Merge(bj, ov) ==
    IF bj.t = "Object" /\ ov.t = "Object"
    THEN JObject(InsertAll(bj.m, ov.m, DOMAIN ov.m))
    ELSE bj

Run(result, st, lk, bc, bj) ==
    [result |-> result, stages |-> st, looked |-> lk,
     base_config |-> bc, base_json |-> bj]

\* variant: a merged object that does not decode falls back to the base
load_config_file_fallback(T, fs, ev) ==
    LET rd == read_to_string(fs, PATH(T))
    IN IF ~rd.ok THEN Run(Err("Io"), <<"read">>, {}, None, None)
       ELSE
       LET y == yaml_from_str(rd.val, Schema(T))
       IN IF ~y.ok THEN Run(Err("Yaml"), <<"read", "yaml">>, {}, None, None)
          ELSE
          LET base == y.val
              env_var_name == EnvVarName(T)
              lookup == env_var(ev, env_var_name)
              s3 == <<"read", "yaml", "env">>
          IN IF ~lookup.ok THEN Run(Ok(base), s3, {env_var_name}, base, None)
             ELSE
             LET json_override == json_from_str(lookup.val)
             IN IF ~json_override.ok
                THEN Run(Err("Json"), s3 \o <<"json_parse">>,
                         {env_var_name}, base, None)
                ELSE
                LET merged == Merge(to_value(base), json_override.val)
                    back == from_value(merged, Schema(T))
                    s6 == s3 \o <<"json_parse", "encode", "merge", "decode">>
                IN Run(IF back.ok THEN Ok(back.val) ELSE Ok(base),
                       s6, {env_var_name}, base, merged)

\* load_config_file::<T>() in the file system fs and environment ev: its
\* result, the stages it ran, the variables it looked up, and the values
\* of its locals base_config and base_json (None when never assigned).
\* Serialize of the modelled schemas cannot fail, so to_value is always Ok.
load_config_file(T, fs, ev) ==
    LET rd == read_to_string(fs, PATH(T))
    IN IF ~rd.ok THEN Run(Err("Io"), <<"read">>, {}, None, None)
       ELSE
       LET y == yaml_from_str(rd.val, Schema(T))
       IN IF ~y.ok THEN Run(Err("Yaml"), <<"read", "yaml">>, {}, None, None)
          ELSE
          LET base == y.val
              env_var_name == EnvVarName(T)
              lookup == env_var(ev, env_var_name)
              s3 == <<"read", "yaml", "env">>
          IN IF ~lookup.ok THEN Run(Ok(base), s3, {env_var_name}, base, None)
             ELSE
             LET json_override == json_from_str(lookup.val)
             IN IF ~json_override.ok
                THEN Run(Err("Json"), s3 \o <<"json_parse">>,
                         {env_var_name}, base, None)
                ELSE
                LET merged == Merge(to_value(base), json_override.val)
                    back == from_value(merged, Schema(T))
                    s6 == s3 \o <<"json_parse", "encode", "merge", "decode">>
                IN Run(IF back.ok THEN Ok(back.val) ELSE Err("Json"),
                       s6, {env_var_name}, base, merged)

\* variant: the insertion is never applied to the world
insert_resource_dropped(w, T, config) == w

\* commands.insert_resource(config), applied to the world
insert_resource(w, T, config) == [w EXCEPT ![T] = config]

(***************************************************************************)
(* State machine                                                           *)
(***************************************************************************)
Init ==
    /\ files = [p \in Paths |-> Missing]
    /\ env = [n \in VarNames |-> Unset]
    /\ world = [T \in Types |-> None]
    /\ lastOp = "none"
    /\ lastT = "none"
    /\ loaded = Err("none")
    /\ ret = Err("none")
    /\ stages = << >>
    /\ looked = {}
    /\ base_config = None
    /\ base_json = None
    /\ changes = 0

Record(op, T, run) ==
    /\ lastOp' = op
    /\ lastT' = T
    /\ loaded' = run.result
    /\ stages' = run.stages
    /\ looked' = run.looked
    /\ base_config' = run.base_config
    /\ base_json' = run.base_json

\* a direct call of load_config_file::<T>()
LoadConfigFile(T) ==
    LET run == load_config_file(T, files, env)
    IN /\ Record("load_config_file", T, run)
       /\ ret' = run.result
       /\ UNCHANGED <<files, env, world, changes>>

\* the system load_resource_from_config_file::<T> run once, with its
\* commands applied
LoadResourceFromConfigFile(T) ==
    LET run == load_config_file(T, files, env)
    IN /\ Record("load_resource_from_config_file", T, run)
       /\ IF run.result.ok
          THEN /\ world' = insert_resource(world, T, run.result.val)
               /\ ret' = Ok(None)
          ELSE /\ world' = world
               /\ ret' = Err(run.result.kind)
       /\ UNCHANGED <<files, env, changes>>

UNCHANGED_run == UNCHANGED <<world, lastOp, lastT, loaded, ret, stages, looked,
                             base_config, base_json>>

\* the surroundings write a configuration file (fs::write in the tests)
WriteFile(p, text) ==
    /\ changes < MaxChanges
    /\ files' = [files EXCEPT ![p] = FileOf(text)]
    /\ changes' = changes + 1
    /\ UNCHANGED env
    /\ UNCHANGED_run

\* the surroundings set a variable (env::set_var in the tests, the shell)
SetVar(n, value) ==
    /\ changes < MaxChanges
    /\ env' = [env EXCEPT ![n] = value]
    /\ changes' = changes + 1
    /\ UNCHANGED files
    /\ UNCHANGED_run

\* env::remove_var in the tests
RemoveVar(n) ==
    /\ changes < MaxChanges
    /\ env[n] # Unset
    /\ env' = [env EXCEPT ![n] = Unset]
    /\ changes' = changes + 1
    /\ UNCHANGED files
    /\ UNCHANGED_run

Next ==
    \/ \E T \in Types : LoadConfigFile(T)
    \/ \E T \in Types : LoadResourceFromConfigFile(T)
    \/ \E p \in Paths, text \in FileTexts : WriteFile(p, text)
    \/ \E n \in VarNames, text \in VarTexts : SetVar(n, TextOf(text))
    \/ \E n \in VarNames : SetVar(n, NotUnicode)
    \/ \E n \in VarNames : RemoveVar(n)

Spec == Init /\ [][Next]_vars

(***************************************************************************)
(* Vocabulary of the properties.  It describes the inputs of a call from   *)
(* the outside: which files are valid for which type and what they hold,   *)
(* which variable a type is expected to read, which texts are JSON.        *)
(***************************************************************************)
GameBase == VStruct([value |-> VI32(42), name |-> VString("test")])
WindowBase == VStruct([width |-> VI32(800), height |-> VI32(600)])
EditorBase == VStruct([volume |-> VF32("fin", 1), window |-> WindowBase])
EditorNanBase == VStruct([volume |-> VF32("nan", 0), window |-> WindowBase])

\* the value the YAML stage is expected to produce for T from a file
\* text, None when the text is not a valid document for T
ExpectedBase(T, text) ==
    IF T = "EditorSettings"
    THEN CASE text = YamlEditor -> EditorBase
           [] text = YamlEditorNan -> EditorNanBase
           [] OTHER -> None
    ELSE IF text = YamlValid THEN GameBase ELSE None

FileMissing(T) == files[PATH(T)].t = "missing"
FileUnparsable(T) ==
    /\ files[PATH(T)].t = "file"
    /\ ExpectedBase(T, files[PATH(T)].q) = None
FileValid(T) ==
    /\ files[PATH(T)].t = "file"
    /\ ExpectedBase(T, files[PATH(T)].q) # None
Base(T) == ExpectedBase(T, files[PATH(T)].q)

\* CONFIG_ followed by the simple name of the type
ExpectedVar(T) == IF T = "Flat" THEN CONFIG_Flat ELSE CONFIG_Settings
VarState(T) ==
    IF ExpectedVar(T) \in DOMAIN env THEN env[ExpectedVar(T)] ELSE Unset

InvalidJson == { Obj1("value", <<Word("invalid"), Word("json")>>),
                 <<P("{"), P("}"), P("}")>> }
NonObjectJson == { <<P("["), IntTok(1), P("]")>>, <<Str("x")>>, <<IntTok(7)>>,
                   <<Lit("true")>>, <<Lit("null")>> }
ObjectJson == (VarTexts \ InvalidJson) \ NonObjectJson

VarIs(T, texts) == VarState(T).t = "text" /\ VarState(T).q \in texts

StageOrder == <<"read", "yaml", "env", "json_parse", "encode", "merge", "decode">>
IsPrefix(a, b) == Len(a) <= Len(b) /\ a = SubSeq(b, 1, Len(a))

\* a step that is a call of the pipeline for T (directly or from the system)
IsLoad(T) == changes' = changes /\ lastT' = T
IsLoadResource(T) ==
    IsLoad(T) /\ lastOp' = "load_resource_from_config_file"

RECURSIVE HasNonFinite(_)
\* some float inside the typed value is not finite
HasNonFinite(x) ==
    CASE x.t = "f32" -> x.k # "fin"
      [] x.t = "struct" -> \E k \in DOMAIN x.m : HasNonFinite(x.m[k])
      [] OTHER -> FALSE

(***************************************************************************)
(* Properties                                                              *)
(***************************************************************************)

\* C1: a call reports the first failure in the fixed stage order and runs
\* no stage after a failed one: the stages run are a prefix of the order; a
\* missing file gives Io after the read alone and an unparsable file gives
\* Yaml after read and parse, whatever the override variable holds; Json
\* is only reported when the file was read and parsed.
C1_FirstFailureInStageOrder ==
    [][\A T \in Types : IsLoad(T) =>
          /\ IsPrefix(stages', StageOrder)
          /\ FileMissing(T) => loaded' = Err("Io") /\ stages' = <<"read">>
          /\ FileUnparsable(T) =>
                loaded' = Err("Yaml") /\ stages' = <<"read", "yaml">>
          /\ (~loaded'.ok /\ loaded'.kind = "Json") => FileValid(T)
          /\ FileValid(T) => Len(stages') >= 3]_vars

C1_Witness ==
    /\ lastT = "GameSettings"
    /\ files["game.yaml"] = FileOf(YamlInvalid)
    /\ VarIs("GameSettings", InvalidJson)
    /\ loaded = Err("Yaml")

\* C2: with a valid file and the derived variable unset, the call returns
\* exactly the value of the YAML stage, without the JSON stages.
C2_NoOverrideInvariance ==
    [][\A T \in Types : (IsLoad(T) /\ FileValid(T) /\ VarState(T) = Unset) =>
          /\ loaded' = Ok(Base(T))
          /\ stages' = <<"read", "yaml", "env">>
          /\ base_json' = None]_vars

C2_Witness ==
    /\ lastT = "EditorSettings"
    /\ files["editor.yaml"] = FileOf(YamlEditorNan)
    /\ VarState("EditorSettings") = Unset
    /\ loaded = Ok(EditorNanBase)

\* C3: when base and override are objects, the merged object maps every
\* key of the override to the override's value and every other key of the
\* base to the base's value.
C3_ShallowMerge ==
    [][\A T \in Types : (IsLoad(T) /\ FileValid(T) /\ VarIs(T, ObjectJson)) =>
          LET ov == json_from_str(VarState(T).q).val
              b == to_value(Base(T))
          IN /\ ov.t = "Object" /\ b.t = "Object"
             /\ base_json'.t = "Object"
             /\ \A k \in DOMAIN ov.m :
                   k \in DOMAIN base_json'.m /\ base_json'.m[k] = ov.m[k]
             /\ \A k \in (DOMAIN b.m) \ (DOMAIN ov.m) :
                   k \in DOMAIN base_json'.m /\ base_json'.m[k] = b.m[k]]_vars

\* the override's nested object has replaced the base's window as a whole
C3_Witness ==
    /\ lastT = "EditorSettings"
    /\ base_config = EditorBase
    /\ base_json.t = "Object"
    /\ base_json.m["window"] = JObject([width |-> JNumber("int", 9)])
    /\ base_json.m["volume"] = JNumber("float", 1)

\* C4: a valid file with an override that is not JSON fails with Json and
\* yields no value.
C4_MalformedOverrideFails ==
    [][\A T \in Types : (IsLoad(T) /\ FileValid(T) /\ VarIs(T, InvalidJson)) =>
          /\ loaded' = Err("Json")
          /\ ~ret'.ok]_vars

C4_Witness ==
    /\ lastT = "GameSettings"
    /\ FileValid("GameSettings")
    /\ VarIs("GameSettings", {Obj1("value", <<Word("invalid"), Word("json")>>)})
    /\ loaded = Err("Json")
    /\ base_config = GameBase

\* C5: the system inserts the resource exactly when the pipeline returned
\* a value, inserts that value and returns Ok; on a failure it returns the
\* error and leaves the registry as it was.
C5_RegistrationOnlyOnSuccess ==
    [][\A T \in Types : IsLoadResource(T) =>
          /\ loaded' = load_config_file(T, files, env).result
          /\ loaded'.ok =>
                ret'.ok /\ world' = [world EXCEPT ![T] = loaded'.val]
          /\ ~loaded'.ok =>
                ~ret'.ok /\ ret'.kind = loaded'.kind /\ world' = world]_vars

C5_Witness ==
    /\ lastOp = "load_resource_from_config_file"
    /\ lastT = "EditorSettings"
    /\ loaded = Err("Json")
    /\ ~ret.ok
    /\ world["EditorSettings"] = None
    /\ world["GameSettings"] = GameBase

\* C6 as stated: with a valid file and an override that is JSON but not an
\* object, nothing is inserted and the call returns the unoverridden base.
C6_NonObjectOverrideReturnsBase ==
    [][\A T \in Types : (IsLoad(T) /\ FileValid(T) /\ VarIs(T, NonObjectJson)) =>
          /\ base_json' = to_value(Base(T))
          /\ loaded' = Ok(Base(T))]_vars

\* C6 amended: with a valid file and an override that is JSON but not an
\* object, nothing is inserted and the re-encoded base is decoded back: the
\* call returns the unoverridden base when every float of the base is
\* finite and fails with Json when one is not.
C6_NonObjectOverrideRoundTrips ==
    [][\A T \in Types : (IsLoad(T) /\ FileValid(T) /\ VarIs(T, NonObjectJson)) =>
          /\ base_json' = to_value(Base(T))
          /\ stages' = StageOrder
          /\ loaded' = IF HasNonFinite(Base(T)) THEN Err("Json")
                       ELSE Ok(Base(T))]_vars

C6_Witness ==
    /\ lastT = "EditorSettings"
    /\ VarIs("EditorSettings", {<<P("["), IntTok(1), P("]")>>})
    /\ base_config = EditorBase
    /\ loaded = Ok(EditorBase)

\* C7: the variable looked up is CONFIG_ followed by the final segment of
\* the type's name split on "::" (the whole name without separator), and
\* no other variable is looked up.
C7_VariableName ==
    [][\A T \in Types : IsLoad(T) =>
          /\ looked' \subseteq {ExpectedVar(T)}
          /\ FileValid(T) => looked' = {ExpectedVar(T)}]_vars

C7_Witness ==
    /\ lastT = "Flat"
    /\ looked = {CONFIG_Flat}
    /\ world["EditorSettings"] # None

\* C8: when the merged object does not decode into the schema the call
\* fails with Json; a value is returned after an override only when the
\* merged object decodes, and then it is the decoded value.
C8_DecodeFailureNoFallback ==
    [][\A T \in Types : (IsLoad(T) /\ FileValid(T) /\ VarIs(T, ObjectJson)) =>
          LET back == from_value(base_json', Schema(T))
          IN /\ ~back.ok => loaded' = Err("Json")
             /\ loaded'.ok => back.ok /\ loaded'.val = back.val]_vars

C8_Witness ==
    /\ lastT = "GameSettings"
    /\ VarIs("GameSettings", {Obj1("value", <<Str("str")>>)})
    /\ base_config = GameBase
    /\ base_json = JObject([value |-> JString("str"), name |-> JString("test")])
    /\ loaded = Err("Json")

\* C9: a variable that is set to a value that is not Unicode is treated as
\* unset: the call returns the unoverridden base without error, so a call
\* on a valid file can only fail when the variable holds readable text.
C9_NotUnicodeIsAbsence ==
    [][\A T \in Types : (IsLoad(T) /\ FileValid(T)) =>
          /\ VarState(T) = NotUnicode =>
                /\ loaded' = Ok(Base(T))
                /\ stages' = <<"read", "yaml", "env">>
                /\ loaded' = load_config_file(T, files,
                                [n \in DOMAIN env |-> Unset]).result
          /\ ~loaded'.ok => VarState(T).t = "text"]_vars

C9_Witness ==
    /\ lastT = "EditorSettings"
    /\ VarState("EditorSettings") = NotUnicode
    /\ loaded = Ok(EditorNanBase)

\* C10: GameSettings and EditorSettings are distinct types whose names end
\* in the same segment; both look up the one variable CONFIG_Settings, and
\* a setting of it is taken as the override by the calls for both.
C10_SharedVariable ==
    [][\A T \in {"GameSettings", "EditorSettings"} :
          (IsLoad(T) /\ FileValid(T)) =>
             /\ type_name("GameSettings") # type_name("EditorSettings")
             /\ looked' = {CONFIG_Settings}
             /\ CONFIG_Settings \in DOMAIN env
             /\ env[CONFIG_Settings].t = "text" =>
                   /\ Len(stages') >= 4
                   /\ stages'[4] = "json_parse"]_vars

\* one setting {"value": 100} has overridden the GameSettings resource and
\* has been merged into the EditorSettings object
C10_Witness ==
    /\ env[CONFIG_Settings] = TextOf(Obj1("value", <<IntTok(100)>>))
    /\ world["GameSettings"] =
          VStruct([value |-> VI32(100), name |-> VString("test")])
    /\ lastT = "EditorSettings"
    /\ base_json.t = "Object"
    /\ "value" \in DOMAIN base_json.m
    /\ base_json.m["value"] = JNumber("int", 100)

TypeOK ==
    /\ changes \in 0..MaxChanges
    /\ \A T \in Types : world[T] = None \/ world[T].t = "struct"
====
